---- MODULE Spec2Model ----
(***************************************************************************)
(* Model of benchmark_compare.js: the comparison harness for two Node.js   *)
(* binaries (MSVC_BIN = candidate A, CLANG_BIN = candidate B).             *)
(*                                                                         *)
(* Five specifications share the variables below:                          *)
(*   Spec         one benchmark function called from main's loop: warmup   *)
(*                loop, measured loop, runBothTimed, runTimed, and the     *)
(*                reduction of the samples to the returned results;        *)
(*   SpecMain     the process from its start to its exit: validation,      *)
(*                version probes, the loop over the benchmarks, report;    *)
(*   SpecWinner   the pure function winner applied to drawn arguments;     *)
(*   SpecMedian   the pure function median applied to drawn arrays;        *)
(*   SpecSummary  main's result list and its summary fold.                 *)
(*                                                                         *)
(* JavaScript values are tagged records [k, v]: k = "num" carries the      *)
(* integer v, k = "frac" a fraction, k = "sqrt" a square root, k = "NaN"   *)
(* is NaN, k = "null" is null, k = "undefined" is undefined.  Arithmetic   *)
(* is exact; the value sets of SpecSummary are chosen so that every        *)
(* division the summary performs on them has an integer result.            *)
(***************************************************************************)
EXTENDS Integers, Sequences, FiniteSets

VARIABLES
    \* ---- winner(...) applied to arguments (SpecWinner)
    call,            \* the arguments of one call of winner
    verdict,         \* what that call returned, "none" before it returns
    \* ---- main's summary (SpecSummary)
    spc,             \* position in main: "collect", "fold", "report", "done"
    allResults,      \* main's allResults
    k,               \* number of results the summary loop has consumed
    msvcWins, clangWins, ties,
    msvcAdvantage, clangAdvantage,
    msvcShare, clangShare,   \* tenths of a percent, as toFixed(1) prints them
    overallWinner,
    \* ---- one benchmark function (Spec)
    bench,           \* index into benchmarks of the function being run
    pc,              \* "warmup", "measure", "reduce", "done", "threw"
    iw,              \* the warmup loop's i
    i,               \* the measured loop's i
    order,           \* runBothTimed's branch: "none", "msvcFirst", "clangFirst"
    started,         \* runTimed calls begun in the current runBothTimed
    running,         \* binaries whose subprocess is executing
    res,             \* what runBothTimed returns: [msvc, clang]
    times,           \* times.msvc / times.clang
    mem,             \* msvcMem / clangMem
    origin,          \* per sample of times and mem: the binary that was spawned
    result,          \* what the function returns: its result objects
    \* ---- the process from its start to its exit (SpecMain)
    mpc,             \* "start", "main", "loop", "call", "report", "exited"
    argc,            \* args.length
    exists,          \* the binaries fs.existsSync finds
    exitCode,        \* the process's exit status, undefined while it runs
    logged,          \* what console.log reported: benchmarks done, the summary
    errors,          \* what console.error reported
    spawned,         \* a subprocess of a candidate has been invoked
    \* ---- median applied to an array (SpecMedian)
    samples,         \* the caller's array
    samples0,        \* the array as the caller passed it
    med              \* what median returned

wvars == <<call, verdict>>
avars == <<spc, allResults, k, msvcWins, clangWins, ties, msvcAdvantage,
           clangAdvantage, msvcShare, clangShare, overallWinner>>
svars == <<bench, pc, iw, i, order, started, running, res, times, mem, origin>>
fvars == <<result, mpc, argc, exists, exitCode, logged, errors>>
xvars == <<samples, samples0, med>>
nvars == <<fvars, spawned, xvars>>
vars == <<wvars, avars, svars, nvars>>

-----------------------------------------------------------------------------
(* JavaScript numbers *)

N(n) == [k |-> "num", v |-> n]
NaN == [k |-> "NaN", v |-> 0]
Null == [k |-> "null", v |-> 0]
Undefined == [k |-> "undefined", v |-> 0]
Zero == N(0)

IsNum(x) == x.k = "num"

\* A number that is not an integer is [k |-> "frac", v |-> <<p, q>>], the
\* fraction p / q in lowest terms with q > 1.
RECURSIVE Gcd(_, _)
Gcd(a, b) == IF b = 0 THEN a ELSE Gcd(b, a % b)

AbsInt(n) == IF n < 0 THEN -n ELSE n

Frac(p, q) ==
    LET g == Gcd(AbsInt(p), q)
    IN  IF q \div g = 1 THEN N(p \div g)
        ELSE [k |-> "frac", v |-> <<p \div g, q \div g>>]

IsFin(x) == x.k \in {"num", "frac"}
Numer(x) == IF x.k = "num" THEN x.v ELSE x.v[1]
Denom(x) == IF x.k = "num" THEN 1 ELSE x.v[2]

\* Integers too large for one machine word, as <<hi, lo>> = hi * WB + lo
\* with 0 <= lo < WB: the squares and products that Math.sqrt's argument
\* and its comparisons need.
WB == 32768
Wide(n) == <<n \div WB, n % WB>>
WAdd(x, y) == <<x[1] + y[1] + (x[2] + y[2]) \div WB, (x[2] + y[2]) % WB>>
WLt(x, y) == x[1] < y[1] \/ (x[1] = y[1] /\ x[2] < y[2])
\* x * y for 0 <= x, y < 2^20
WMul(x, y) ==
    LET x1 == x \div WB   x0 == x % WB
        y1 == y \div WB   y0 == y % WB
    IN  <<x1 * y1 * WB + x1 * y0 + x0 * y1 + (x0 * y0) \div WB, (x0 * y0) % WB>>
\* w * c for a small c
WScale(w, c) == <<w[1] * c + (w[2] * c) \div WB, (w[2] * c) % WB>>

\* Math.sqrt of the positive fraction w / c, w wide: kept as the root it is
Sqrt(w, c) == [k |-> "sqrt", v |-> <<w, c>>]

\* x squared for x >= 0, as <<wide numerator, denominator>>
Sq(x) ==
    IF x.k = "sqrt" THEN x.v
    ELSE <<WMul(AbsInt(Numer(x)), AbsInt(Numer(x))), Denom(x) * Denom(x)>>

SqLt(a, b) == WLt(WScale(Sq(a)[1], Sq(b)[2]), WScale(Sq(b)[1], Sq(a)[2]))

\* a < b, a > b, a === b on numbers: false as soon as one side is NaN
JsLt(a, b) ==
    IF IsFin(a) /\ IsFin(b) THEN Numer(a) * Denom(b) < Numer(b) * Denom(a)
    ELSE IF a.k = "sqrt" /\ IsFin(b) THEN Numer(b) > 0 /\ SqLt(a, b)
    ELSE IF IsFin(a) /\ b.k = "sqrt" THEN Numer(a) <= 0 \/ SqLt(a, b)
    ELSE IF a.k = "sqrt" /\ b.k = "sqrt" THEN SqLt(a, b)
    ELSE FALSE
JsGt(a, b) == JsLt(b, a)
JsEq(a, b) == IsFin(a) /\ IsFin(b) /\ a = b

\* a - b, a + b, Math.abs(a) on integers and fractions
JsSub(a, b) ==
    IF IsFin(a) /\ IsFin(b)
    THEN Frac(Numer(a) * Denom(b) - Numer(b) * Denom(a), Denom(a) * Denom(b))
    ELSE NaN
JsAdd(a, b) ==
    IF IsFin(a) /\ IsFin(b)
    THEN Frac(Numer(a) * Denom(b) + Numer(b) * Denom(a), Denom(a) * Denom(b))
    ELSE NaN
JsAbs(a) == IF IsFin(a) THEN Frac(AbsInt(Numer(a)), Denom(a)) ELSE NaN
\* a / b for b an integer other than 0
JsDiv(a, b) == IF IsFin(a) /\ IsNum(b) THEN Frac(Numer(a), Denom(a) * b.v) ELSE NaN
\* Math.max(a, b)
JsMax(a, b) ==
    IF (IsFin(a) \/ a.k = "sqrt") /\ (IsFin(b) \/ b.k = "sqrt")
    THEN IF JsLt(a, b) THEN b ELSE a
    ELSE NaN
\* (a / b) * c for b # 0, on arguments where b divides a * c
JsDivMul(a, b, c) == IF IsNum(a) /\ IsNum(b) THEN N((a.v * c) \div b.v) ELSE NaN

-----------------------------------------------------------------------------
(* winner, lines 55-61 *)

winnerNoGate(msvcVal, clangVal, lowerIsBetter, msvcStd, clangStd) ==
    IF lowerIsBetter
    THEN IF JsLt(msvcVal, clangVal) THEN "MSVC"
         ELSE IF JsGt(msvcVal, clangVal) THEN "ClangCL" ELSE "Tie"
    ELSE IF JsGt(msvcVal, clangVal) THEN "MSVC"
         ELSE IF JsLt(msvcVal, clangVal) THEN "ClangCL" ELSE "Tie"

winnerHigherWins(msvcVal, clangVal, lowerIsBetter, msvcStd, clangStd) ==
    IF /\ JsGt(msvcStd, Zero) \/ JsGt(clangStd, Zero)
       /\ JsLt(JsAbs(JsSub(msvcVal, clangVal)), JsMax(msvcStd, clangStd))
    THEN "~Tie"
    ELSE IF JsGt(msvcVal, clangVal) THEN "MSVC"
         ELSE IF JsLt(msvcVal, clangVal) THEN "ClangCL" ELSE "Tie"

winner(msvcVal, clangVal, lowerIsBetter, msvcStd, clangStd) ==
    IF /\ JsGt(msvcStd, Zero) \/ JsGt(clangStd, Zero)
       /\ JsLt(JsAbs(JsSub(msvcVal, clangVal)), JsMax(msvcStd, clangStd))
    THEN "~Tie"
    ELSE IF lowerIsBetter
         THEN IF JsLt(msvcVal, clangVal) THEN "MSVC"
              ELSE IF JsGt(msvcVal, clangVal) THEN "ClangCL" ELSE "Tie"
         ELSE IF JsGt(msvcVal, clangVal) THEN "MSVC"
              ELSE IF JsLt(msvcVal, clangVal) THEN "ClangCL" ELSE "Tie"

\* the fields of a benchmark result that main reads; every benchmark calls
\* winner with lowerIsBetter = true (lines 104, 133, 248, 313, ...)
Result(msvc, clang, msvcStd, clangStd) ==
    [msvc |-> msvc, clang |-> clang,
     winner |-> winner(msvc, clang, TRUE, msvcStd, clangStd)]

-----------------------------------------------------------------------------
(* Program constants and model bounds *)

MSVC_BIN == "MSVC_BIN"       \* line 14
CLANG_BIN == "CLANG_BIN"     \* line 15
ITERATIONS == 2              \* line 19 (30 in the source, scaled down)
WARMUP == 1                  \* line 20 (10 in the source, scaled down)
TIMEOUT == 60000             \* line 67, spawnSync's timeout in ms

MaxVal == 3                  \* SpecWinner: values are 0..MaxVal and NaN
MaxStd == 2                  \* SpecWinner: stddevs are 0..MaxStd and NaN
MaxResults == 3              \* SpecSummary: length of allResults
MaxSample == 4               \* SpecMedian: observations are 1..MaxSample
MaxLen == 4                  \* SpecMedian: arrays of up to MaxLen observations

-----------------------------------------------------------------------------
(* Text: a captured stdout is a sequence of characters; a JSON key such as *)
(* "rss" (with its quotes) is held as one element.                         *)

DigitChars == <<"0", "1", "2", "3", "4", "5", "6", "7", "8", "9">>
Digits == {DigitChars[j] : j \in 1..10}
DigitVal(c) == (CHOOSE j \in 1..10 : DigitChars[j] = c) - 1
IsWs(c) == c \in {" ", "\n"}

SetMin(S) == CHOOSE x \in S : \A y \in S : x <= y
SetMax(S) == CHOOSE x \in S : \A y \in S : x >= y

\* String.prototype.trim
trim(s) ==
    LET keep == {j \in 1..Len(s) : ~IsWs(s[j])}
    IN  IF keep = {} THEN <<>> ELSE SubSeq(s, SetMin(keep), SetMax(keep))

RECURSIVE DecVal(_, _)
DecVal(s, n) == IF n = 0 THEN 0 ELSE 10 * DecVal(s, n - 1) + DigitVal(s[n])

\* parseFloat on unsigned integer literals: the longest prefix of digits is
\* the number, whatever follows it; NaN when the text starts with no digit.
parseFloat(s) ==
    LET n == SetMax({0} \cup {m \in 1..Len(s) : \A j \in 1..m : s[j] \in Digits})
    IN  IF n = 0 THEN NaN ELSE N(DecVal(s, n))

isNaN(x) == ~IsNum(x)

Keys == {"rss", "heapUsed", "heapTotal", "external"}
JsObj(f) == [k |-> "obj", v |-> f]

\* JSON.parse on the texts: null, an unsigned integer, or an object whose
\* members are key : digit pairs.  ok = FALSE is the SyntaxError thrown.
JSONparse(text) ==
    LET t == trim(text)
        n == Len(t)
        inner == IF n >= 2 THEN SubSeq(t, 2, n - 1) ELSE <<>>
        m == Len(inner)
        members == /\ m = 0 \/ m % 4 = 3
                   /\ \A p \in 1..m :
                        CASE p % 4 = 1 -> inner[p] \in Keys
                          [] p % 4 = 2 -> inner[p] = ":"
                          [] p % 4 = 3 -> inner[p] \in Digits
                          [] OTHER     -> inner[p] = ","
    IN  IF t = <<"null">> THEN [ok |-> TRUE, val |-> Null]
        ELSE IF n > 0 /\ \A j \in 1..n : t[j] \in Digits
             THEN [ok |-> TRUE, val |-> N(DecVal(t, n))]
        ELSE IF n >= 2 /\ t[1] = "{" /\ t[n] = "}" /\ members
             THEN [ok |-> TRUE,
                   val |-> JsObj({<<inner[p], DigitVal(inner[p + 2])>> :
                                    p \in {q \in 1..m : q % 4 = 1}})]
        ELSE [ok |-> FALSE, val |-> Undefined]

\* m.key
Get(m, key) ==
    IF m.k = "obj" /\ \E p \in m.v : p[1] = key
    THEN N((CHOOSE p \in m.v : p[1] = key)[2])
    ELSE Undefined

-----------------------------------------------------------------------------
(* median, mean, stddev, lines 24-37.  The arrays they are given hold      *)
(* integers and, from a payload without the field, undefined; parseFloat's *)
(* NaN is never pushed.                                                    *)

\* arr[j] with JavaScript's index j - 1: undefined outside the array
At(arr, j) == IF j \in 1..Len(arr) THEN arr[j] ELSE Undefined

\* Array.prototype.sort with (a, b) => a - b puts x before e when x - e < 0;
\* undefined elements go last without the comparator being asked
ComesFirst(x, e) == x # Undefined /\ (e = Undefined \/ JsLt(x, e))

\* x put into the sorted s behind the elements it does not come before
Insert(x, s) ==
    LET behind == {j \in 1..Len(s) : ComesFirst(x, s[j])}
        p == IF behind = {} THEN Len(s) + 1 ELSE SetMin(behind)
    IN  SubSeq(s, 1, p - 1) \o <<x>> \o SubSeq(s, p, Len(s))

RECURSIVE SortAsc(_)
SortAsc(s) ==
    IF s = <<>> THEN <<>> ELSE Insert(s[Len(s)], SortAsc(SubSeq(s, 1, Len(s) - 1)))

\* line 25: what median's sort leaves in the caller's array; it sorts the
\* copy [...arr]
spreadCopy(arr) == arr

medianUpperMiddle(arr) ==
    LET sorted == SortAsc(arr)
        mid == Len(sorted) \div 2
    IN  At(sorted, mid + 1)

median(arr) ==
    LET sorted == SortAsc(arr)
        mid == Len(sorted) \div 2
    IN  IF Len(sorted) % 2 = 1 THEN At(sorted, mid + 1)
        ELSE JsDiv(JsAdd(At(sorted, mid), At(sorted, mid + 1)), N(2))

\* arr.reduce((a, b) => a + b, 0) over the first n elements
RECURSIVE SumTo(_, _)
SumTo(arr, n) == IF n = 0 THEN Zero ELSE JsAdd(SumTo(arr, n - 1), arr[n])

\* 0 / 0 is NaN
mean(arr) ==
    IF Len(arr) = 0 THEN NaN ELSE JsDiv(SumTo(arr, Len(arr)), N(Len(arr)))

\* The sum over the first j elements of (Len(arr) * (v - m)) squared: with
\* m = mean(arr) each v - m is a multiple of 1 / Len(arr).
RECURSIVE SumSqDev(_, _, _)
SumSqDev(arr, m, j) ==
    IF j = 0 THEN Wide(0)
    ELSE LET d == JsSub(arr[j], m)
             e == AbsInt(Numer(d)) * (Len(arr) \div Denom(d))
         IN  WAdd(SumSqDev(arr, m, j - 1), WMul(e, e))

\* Math.sqrt(sum of (v - m) ** 2 / (arr.length - 1)):
\*   no element: 0 / -1 = -0, whose root is -0, which compares as 0;
\*   one element: 0 / 0 = NaN;
\*   an element that is not a number makes m, the sum and the root NaN.
stddev(arr) ==
    LET n == Len(arr)
        m == mean(arr)
    IN  IF n = 0 THEN Zero
        ELSE IF n = 1 \/ ~IsFin(m) THEN NaN
        ELSE LET w == SumSqDev(arr, m, n)
             IN  IF w = Wide(0) THEN Zero ELSE Sqrt(w, n * n * (n - 1))

-----------------------------------------------------------------------------
(* The benchmark functions of main's list, lines 695-709 *)

benchmarks == <<
    [name |-> "Binary Size",            fn |-> "benchBinarySize"],
    [name |-> "Startup Time",           fn |-> "benchStartupTime"],
    [name |-> "require(\"fs\")",        fn |-> "benchRequireFS"],
    [name |-> "Require 10 modules",     fn |-> "benchRequireHeavy"],
    [name |-> "Memory at Startup",      fn |-> "benchMemoryStartup"],
    [name |-> "Buffer Operations",      fn |-> "benchBufferOps"],
    [name |-> "JSON parse/stringify",   fn |-> "benchJSON"],
    [name |-> "URL parsing (Ada)",      fn |-> "benchURLParsing"],
    [name |-> "Zlib compress/decomp",   fn |-> "benchZlib"],
    [name |-> "TextEncoder/Decoder",    fn |-> "benchTextCodec"],
    [name |-> "Stream pipe throughput", fn |-> "benchStreamPipe"],
    [name |-> "FS readFileSync",        fn |-> "benchFSRead"],
    [name |-> "Memory under load",      fn |-> "benchMemoryHeavy"] >>

\* What the body of the function does with a trial: "size" runs no trial,
\* "timed" keeps durationMs, "float" keeps parseFloat(stdout.trim()),
\* "json" keeps JSON.parse(stdout.trim()).
Kind(fn) ==
    CASE fn = "benchBinarySize" -> "size"
      [] fn \in {"benchStartupTime", "benchRequireFS", "benchRequireHeavy"} -> "timed"
      [] fn \in {"benchMemoryStartup", "benchMemoryHeavy"} -> "json"
      [] OTHER -> "float"

kind == Kind(benchmarks[bench].fn)

-----------------------------------------------------------------------------
(* What a subprocess can do: exit status, wall-clock duration, stdout.     *)
(* status null is spawnSync's status of a child killed on timeout.         *)

NL == "\n"
MemJson == <<"{", "rss", ":", "2", ",", "heapUsed", ":", "4", ",",
             "heapTotal", ":", "6", ",", "external", ":", "2", "}", NL>>

Exits(script) ==
    CASE script = "timed" ->
            {[status |-> N(0), durationMs |-> N(d), stdout |-> <<>>] : d \in {2, 4}}
       \cup {[status |-> N(1), durationMs |-> N(2), stdout |-> <<>>]}
      [] script = "float" ->
            {[status |-> N(0), durationMs |-> N(2), stdout |-> o] :
                o \in {<<"2", NL>>, <<"4", NL>>, <<"4", "x", NL>>, <<"x", NL>>}}
       \cup {[status |-> N(1), durationMs |-> N(2), stdout |-> o] :
                o \in {<<>>, <<"2", NL>>}}
      [] script = "json" ->
            {[status |-> N(0), durationMs |-> N(2), stdout |-> o] :
                o \in {MemJson, <<"{", "}", NL>>, <<"null", NL>>, <<"x", NL>>}}
       \cup {[status |-> N(1), durationMs |-> N(2), stdout |-> <<>>]}
      [] OTHER -> {}

Outcomes(script) ==
    Exits(script)
    \cup {[status |-> Null, durationMs |-> N(TIMEOUT), stdout |-> <<>>]}

None == [status |-> Undefined, durationMs |-> Undefined, stdout |-> <<>>,
         bin |-> "none"]

\* runTimed, lines 63-78: what it returns for a child that ended as o.
\* bin is the binary that was spawned.
runTimed(bin, o) ==
    [durationMs |-> o.durationMs, stdout |-> o.stdout, status |-> o.status,
     bin |-> bin]

\* runBothTimed, lines 80-90: per branch, the runTimed calls in order, each
\* with the field of the returned object that receives its result.
runBothSwapped(branch) ==
    IF branch = "msvcFirst"
    THEN << [slot |-> "msvc", bin |-> MSVC_BIN], [slot |-> "clang", bin |-> CLANG_BIN] >>
    ELSE << [slot |-> "msvc", bin |-> CLANG_BIN], [slot |-> "clang", bin |-> MSVC_BIN] >>

runBothTimed(branch) ==
    IF branch = "msvcFirst"
    THEN << [slot |-> "msvc", bin |-> MSVC_BIN], [slot |-> "clang", bin |-> CLANG_BIN] >>
    ELSE << [slot |-> "clang", bin |-> CLANG_BIN], [slot |-> "msvc", bin |-> MSVC_BIN] >>

\* spawnSync, line 65, blocks its caller until the child has exited or been
\* killed: the caller runs on only when no child is executing.
spawnAsync == TRUE

spawnSyncReturned == running = {}

\* loop conditions, lines 114 and 116
warmupOneShort(n) == n < WARMUP - 1

inWarmup(n) == n < WARMUP

inMeasured(n) == n < ITERATIONS

-----------------------------------------------------------------------------
(* One benchmark function: warmup loop, measured loop *)

Empty == [msvc |-> <<>>, clang |-> <<>>]
NoRes == [msvc |-> None, clang |-> None]

plan == runBothTimed(order)
SlotOf(b) == (CHOOSE n \in 1..2 : plan[n].bin = b)
In(field, r) == IF field = "msvc" THEN r.msvc ELSE r.clang

\* the loop the function is in once the warmup loop has counted to n
AfterWarmupStep(n) ==
    IF inWarmup(n) THEN "warmup" ELSE IF inMeasured(0) THEN "measure" ELSE "reduce"

InLoopBody ==
    \/ pc = "warmup" /\ inWarmup(iw)
    \/ pc = "measure" /\ inMeasured(i)

\* what the measured loop's body keeps of one runTimed result r
\*   timed: lines 118-119   float: lines 296-299   json: lines 220-221
Keeps(script, r) ==
    CASE script = "timed" -> TRUE
      [] script = "float" -> ~isNaN(parseFloat(trim(r.stdout)))
      [] script = "json"  -> JSONparse(trim(r.stdout)).ok
      [] OTHER -> FALSE

Sample(script, r) ==
    CASE script = "timed" -> r.durationMs
      [] script = "float" -> parseFloat(trim(r.stdout))
      [] script = "json"  -> JSONparse(trim(r.stdout)).val
      [] OTHER -> Undefined

Push(script, arr, r) ==
    [msvc  |-> IF Keeps(script, r.msvc)
               THEN Append(arr.msvc, Sample(script, r.msvc)) ELSE arr.msvc,
     clang |-> IF Keeps(script, r.clang)
               THEN Append(arr.clang, Sample(script, r.clang)) ELSE arr.clang]

PushOrigin(script, arr, r) ==
    [msvc  |-> IF Keeps(script, r.msvc)
               THEN Append(arr.msvc, r.msvc.bin) ELSE arr.msvc,
     clang |-> IF Keeps(script, r.clang)
               THEN Append(arr.clang, r.clang.bin) ELSE arr.clang]

\* runBothTimed is entered: Math.random() picks the branch, and the branch's
\* first runTimed spawns its child (lines 81-82, 86)
SpawnFirst(branch) ==
    /\ mpc = "call"
    /\ kind # "size"
    /\ InLoopBody
    /\ started = 0
    /\ spawnSyncReturned
    /\ order' = branch
    /\ started' = 1
    /\ running' = running \cup {runBothTimed(branch)[1].bin}
    /\ spawned' = TRUE
    /\ UNCHANGED <<bench, pc, iw, i, res, times, mem, origin>>
    /\ UNCHANGED <<wvars, avars, fvars, xvars>>

\* the branch's second runTimed spawns its child (lines 83, 87)
SpawnSecond ==
    /\ started = 1
    /\ spawnSyncReturned
    /\ started' = 2
    /\ running' = running \cup {plan[2].bin}
    /\ spawned' = TRUE
    /\ UNCHANGED <<bench, pc, iw, i, order, res, times, mem, origin>>
    /\ UNCHANGED <<wvars, avars, fvars, xvars>>

\* a child exits or is killed on timeout; spawnSync returns and runTimed
\* builds its result (lines 71-77)
ChildEnds(b, o) ==
    /\ b \in running
    /\ running' = running \ {b}
    /\ res' = IF plan[SlotOf(b)].slot = "msvc"
              THEN [res EXCEPT !.msvc = runTimed(b, o)]
              ELSE [res EXCEPT !.clang = runTimed(b, o)]
    /\ UNCHANGED <<bench, pc, iw, i, order, started, times, mem, origin>>
    /\ UNCHANGED <<wvars, avars, nvars>>

Returned == started = 2 /\ spawnSyncReturned

\* warmup loop body: the returned pair is dropped (lines 114, 143, 184, 213,
\* 292, ...)
Discard ==
    /\ pc = "warmup"
    /\ Returned
    /\ iw' = iw + 1
    /\ pc' = AfterWarmupStep(iw + 1)
    /\ order' = "none" /\ started' = 0 /\ res' = NoRes
    /\ UNCHANGED <<bench, i, running, times, mem, origin>>
    /\ UNCHANGED <<wvars, avars, nvars>>

LoopEnd ==
    /\ i' = i + 1
    /\ pc' = IF inMeasured(i + 1) THEN "measure" ELSE "reduce"
    /\ order' = "none" /\ started' = 0 /\ res' = NoRes
    /\ UNCHANGED <<bench, iw, running>>
    /\ UNCHANGED <<wvars, avars, nvars>>

\* measured loop body of the wall-clock benchmarks (lines 116-120)
RecordTimed ==
    /\ pc = "measure" /\ kind = "timed"
    /\ Returned
    /\ times' = Push("timed", times, res)
    /\ origin' = PushOrigin("timed", origin, res)
    /\ UNCHANGED mem
    /\ LoopEnd

\* measured loop body of the benchmarks that print a number (lines 294-300)
RecordFloat ==
    /\ pc = "measure" /\ kind = "float"
    /\ Returned
    /\ times' = Push("float", times, res)
    /\ origin' = PushOrigin("float", origin, res)
    /\ UNCHANGED mem
    /\ LoopEnd

\* measured loop body of the memory benchmarks (lines 218-222)
RecordJson ==
    /\ pc = "measure" /\ kind = "json"
    /\ Returned
    /\ mem' = Push("json", mem, res)
    /\ origin' = PushOrigin("json", origin, res)
    /\ UNCHANGED times
    /\ LoopEnd

\* the fields each memory benchmark reduces, in the order of its results
\* (lines 224-231 and 611-614)
FieldSeq(fn) ==
    IF fn = "benchMemoryStartup" THEN <<"rss", "heapUsed", "heapTotal", "external">>
    ELSE <<"rss", "heapUsed">>

\* arr.map(m => m[key])
Pluck(a, key) == [j \in 1..Len(a) |-> Get(a[j], key)]

\* reading a property of null throws a TypeError
HoldsNull(a) == \E j \in 1..Len(a) : a[j] = Null

\* fs.statSync(bin).size
Sizes == {N(2), N(4)}

\* benchBinarySize, lines 94-108: winner is called with its defaults
ReturnSize(msvcSize, clangSize) ==
    /\ mpc = "call"
    /\ pc = "reduce" /\ kind = "size"
    /\ result' = << Result(msvcSize, clangSize, Zero, Zero) >>
    /\ pc' = "done"
    /\ UNCHANGED <<bench, iw, i, order, started, running, res, times, mem, origin>>
    /\ UNCHANGED <<mpc, argc, exists, exitCode, logged, errors, spawned>>
    /\ UNCHANGED <<wvars, avars, xvars>>

\* after the measured loop of the benchmarks that fill times (lines 122-135,
\* 302-316, ...): medians, stddevs and winner make the result
ReturnTimes ==
    /\ pc = "reduce" /\ kind \in {"timed", "float"}
    /\ result' = << Result(median(times.msvc), median(times.clang),
                           stddev(times.msvc), stddev(times.clang)) >>
    /\ pc' = "done"
    /\ UNCHANGED <<bench, iw, i, order, started, running, res, times, mem, origin>>
    /\ UNCHANGED <<mpc, argc, exists, exitCode, logged, errors, spawned>>
    /\ UNCHANGED <<wvars, avars, xvars>>

\* after the measured loop of the memory benchmarks (lines 224-275, 611-638):
\* one result per field; the first map over an array that holds null throws
ReturnMem ==
    /\ pc = "reduce" /\ kind = "json"
    /\ IF HoldsNull(mem.msvc) \/ HoldsNull(mem.clang)
       THEN result' = <<>> /\ pc' = "threw"
       ELSE /\ result' =
                 [f \in 1..Len(FieldSeq(benchmarks[bench].fn)) |->
                    LET key == FieldSeq(benchmarks[bench].fn)[f]
                        a == Pluck(mem.msvc, key)
                        b == Pluck(mem.clang, key)
                    IN  Result(median(a), median(b), stddev(a), stddev(b))]
            /\ pc' = "done"
    /\ UNCHANGED <<bench, iw, i, order, started, running, res, times, mem, origin>>
    /\ UNCHANGED <<mpc, argc, exists, exitCode, logged, errors, spawned>>
    /\ UNCHANGED <<wvars, avars, xvars>>

IdleWinner ==
    /\ call = [msvcVal |-> Zero, clangVal |-> Zero, lowerIsBetter |-> TRUE,
               msvcStd |-> Zero, clangStd |-> Zero]
    /\ verdict = "none"

IdleSummary ==
    /\ spc = "idle" /\ allResults = <<>> /\ k = 0
    /\ msvcWins = 0 /\ clangWins = 0 /\ ties = 0
    /\ msvcAdvantage = Zero /\ clangAdvantage = Zero
    /\ msvcShare = 0 /\ clangShare = 0 /\ overallWinner = "none"

IdleBench ==
    /\ bench = 1 /\ pc = "idle" /\ iw = 0 /\ i = 0
    /\ order = "none" /\ started = 0 /\ running = {} /\ res = NoRes
    /\ times = Empty /\ mem = Empty /\ origin = Empty
    /\ result = <<>>

IdleMain ==
    /\ mpc = "idle" /\ argc = 2 /\ exists = {MSVC_BIN, CLANG_BIN}
    /\ exitCode = Undefined /\ logged = <<>> /\ errors = <<>> /\ spawned = FALSE

NoMedian == [k |-> "none", v |-> 0]

IdleMedian == samples = <<>> /\ samples0 = <<>> /\ med = NoMedian

Init ==
    /\ bench \in 1..Len(benchmarks)
    /\ pc = IF kind = "size" THEN "reduce" ELSE AfterWarmupStep(0)
    /\ iw = 0 /\ i = 0
    /\ order = "none" /\ started = 0 /\ running = {} /\ res = NoRes
    /\ times = Empty /\ mem = Empty /\ origin = Empty
    /\ result = <<>>
    /\ mpc = "call" /\ argc = 2 /\ exists = {MSVC_BIN, CLANG_BIN}
    /\ exitCode = Undefined /\ logged = <<>> /\ errors = <<>> /\ spawned = TRUE
    /\ IdleWinner /\ IdleSummary /\ IdleMedian

Next ==
    \/ \E branch \in {"msvcFirst", "clangFirst"} : SpawnFirst(branch)
    \/ SpawnSecond
    \/ \E b \in {MSVC_BIN, CLANG_BIN} : \E o \in Outcomes(kind) : ChildEnds(b, o)
    \/ Discard
    \/ RecordTimed
    \/ RecordFloat
    \/ RecordJson
    \/ \E a \in Sizes, b \in Sizes : ReturnSize(a, b)
    \/ ReturnTimes
    \/ ReturnMem

Spec == Init /\ [][Next]_vars

-----------------------------------------------------------------------------
(* SpecMain: the process from its start to its exit, lines 9-17 and        *)
(* 679-744.  main is an async function whose rejection is handed to        *)
(* console.error (line 744): an exception inside it ends the run with the  *)
(* exit status 0.  Of every result pushed to allResults this specification *)
(* keeps the name; the numbers are SpecSummary's subject.                  *)

\* the name of each result a benchmark function returns
resultNames(fn) ==
    CASE fn = "benchBinarySize"    -> <<"Binary Size">>
      [] fn = "benchStartupTime"   -> <<"Startup Time (node -e \"0\")">>
      [] fn = "benchRequireFS"     -> <<"require(\"fs\") + exit">>
      [] fn = "benchRequireHeavy"  -> <<"Require 10 core modules">>
      [] fn = "benchMemoryStartup" -> <<"Memory: RSS at startup",
                                        "Memory: Heap Used at startup",
                                        "Memory: Heap Total at startup",
                                        "Memory: External at startup">>
      [] fn = "benchBufferOps"     -> <<"Buffer ops (50k alloc+fill+hex)">>
      [] fn = "benchJSON"          -> <<"JSON parse+stringify (20k iters)">>
      [] fn = "benchFSRead"        -> <<"FS: readFileSync 64KB (5000x)">>
      [] fn = "benchURLParsing"    -> <<"URL parsing (50k, Ada C++)">>
      [] fn = "benchZlib"          -> <<"Zlib deflate+inflate 64KB (500x)">>
      [] fn = "benchTextCodec"     -> <<"TextEncoder/Decoder (10k iters)">>
      [] fn = "benchStreamPipe"    -> <<"Stream pipe 3-chain (200x100 16KB)">>
      [] OTHER                     -> <<"Memory: RSS under 500k objects",
                                        "Memory: Heap Used under 500k objects">>

\* lines 10-17: the message of the first test that fails, "none" when
\* args.length is 2 and fs.existsSync finds both binaries
validationSkipsSecond(n, found) ==
    IF n # 2 THEN "Usage: node benchmark_compare.js <path-to-msvc-binary> <path-to-clang-binary>"
    ELSE IF MSVC_BIN \notin found THEN "MSVC binary not found"
    ELSE "none"

validationError(n, found) ==
    IF n # 2 THEN "Usage: node benchmark_compare.js <path-to-msvc-binary> <path-to-clang-binary>"
    ELSE IF MSVC_BIN \notin found THEN "MSVC binary not found"
    ELSE IF CLANG_BIN \notin found THEN "ClangCL binary not found"
    ELSE "none"

InitMain ==
    /\ mpc = "start"
    /\ argc \in 1..3
    /\ exists \in SUBSET {MSVC_BIN, CLANG_BIN}
    /\ exitCode = Undefined /\ logged = <<>> /\ errors = <<>> /\ spawned = FALSE
    /\ IdleBench /\ IdleWinner /\ IdleSummary /\ IdleMedian

\* module top level, lines 9-17: console.error and process.exit(1), or on
\* to main
Validate ==
    /\ mpc = "start"
    /\ LET e == validationError(argc, exists)
       IN  IF e = "none"
           THEN mpc' = "main" /\ UNCHANGED <<exitCode, errors>>
           ELSE /\ errors' = Append(errors, e)
                /\ exitCode' = N(1)
                /\ mpc' = "exited"
    /\ UNCHANGED <<result, argc, exists, logged, spawned>>
    /\ UNCHANGED <<wvars, avars, svars, xvars>>

\* the execFileSync calls of benchVersionInfo, lines 642-645, in order
probes == <<MSVC_BIN, CLANG_BIN, MSVC_BIN, CLANG_BIN>>

\* main up to line 692.  execFileSync throws when its child cannot be run,
\* exits with a non-zero status or is killed; failAt is the first call that
\* throws, 0 when none does.  The exception rejects main's promise.
VersionInfo(failAt) ==
    /\ mpc = "main"
    /\ failAt \in 0..Len(probes)
    /\ spawned' = TRUE
    /\ IF failAt = 0
       THEN mpc' = "loop" /\ UNCHANGED <<exitCode, errors>>
       ELSE /\ errors' = Append(errors, "Error: Command failed")
            /\ exitCode' = N(0)
            /\ mpc' = "exited"
    /\ UNCHANGED <<result, argc, exists, logged>>
    /\ UNCHANGED <<wvars, avars, svars, xvars>>

\* lines 711-713: the loop takes the next benchmark and calls its function,
\* whose arrays start empty
CallBench ==
    /\ mpc = "loop"
    /\ mpc' = "call"
    /\ logged' = Append(logged, <<"Running", benchmarks[bench].name>>)
    /\ pc' = IF kind = "size" THEN "reduce" ELSE AfterWarmupStep(0)
    /\ iw' = 0 /\ i' = 0
    /\ order' = "none" /\ started' = 0 /\ running' = {} /\ res' = NoRes
    /\ times' = Empty /\ mem' = Empty /\ origin' = Empty
    /\ result' = <<>>
    /\ UNCHANGED <<bench, argc, exists, exitCode, errors, spawned>>
    /\ UNCHANGED <<wvars, avars, xvars>>

\* lines 713-720: the function has returned; an array of results is spread
\* into allResults, a single result is pushed; the loop moves on
ReturnBench ==
    /\ mpc = "call" /\ pc = "done"
    /\ allResults' = allResults \o
          [j \in 1..Len(result) |-> [name |-> resultNames(benchmarks[bench].fn)[j]]]
    /\ logged' = Append(logged, <<"done", benchmarks[bench].name>>)
    /\ IF bench < Len(benchmarks)
       THEN bench' = bench + 1 /\ mpc' = "loop"
       ELSE bench' = bench /\ mpc' = "report"
    /\ pc' = "idle" /\ iw' = 0 /\ i' = 0
    /\ order' = "none" /\ started' = 0 /\ running' = {} /\ res' = NoRes
    /\ times' = Empty /\ mem' = Empty /\ origin' = Empty
    /\ result' = <<>>
    /\ UNCHANGED <<argc, exists, exitCode, errors, spawned>>
    /\ UNCHANGED <<spc, k, msvcWins, clangWins, ties, msvcAdvantage,
                   clangAdvantage, msvcShare, clangShare, overallWinner>>
    /\ UNCHANGED <<wvars, xvars>>

\* line 713 throws: main's promise is rejected and line 744 prints the error
ThrowBench ==
    /\ mpc = "call" /\ pc = "threw"
    /\ errors' = Append(errors, "TypeError")
    /\ exitCode' = N(0)
    /\ mpc' = "exited"
    /\ UNCHANGED <<result, argc, exists, logged, spawned>>
    /\ UNCHANGED <<wvars, avars, svars, xvars>>

\* lines 722-742: the table and the summary are printed and main returns
ReportMain ==
    /\ mpc = "report"
    /\ logged' = Append(logged, <<"Overall winner", "">>)
    /\ exitCode' = N(0)
    /\ mpc' = "exited"
    /\ UNCHANGED <<result, argc, exists, errors, spawned>>
    /\ UNCHANGED <<wvars, avars, svars, xvars>>

NextMain ==
    \/ Validate
    \/ \E failAt \in 0..Len(probes) : VersionInfo(failAt)
    \/ CallBench
    \/ Next
    \/ ReturnBench
    \/ ThrowBench
    \/ ReportMain

SpecMain == InitMain /\ [][NextMain]_vars

-----------------------------------------------------------------------------
(* SpecMedian: median called on an array of observations, lines 24-28 *)

Observations == {N(n) : n \in 1..MaxSample}

ArraysUpTo(n) == UNION {[1..m -> Observations] : m \in 0..n}

InitMedian ==
    /\ samples \in ArraysUpTo(MaxLen)
    /\ samples0 = samples
    /\ med = NoMedian
    /\ IdleBench /\ IdleMain /\ IdleWinner /\ IdleSummary

\* the call median(samples) returns
Median ==
    /\ med = NoMedian
    /\ med' = median(samples)
    /\ samples' = spreadCopy(samples)
    /\ UNCHANGED samples0
    /\ UNCHANGED <<wvars, avars, svars, fvars, spawned>>

NextMedian == Median

SpecMedian == InitMedian /\ [][NextMedian]_vars

-----------------------------------------------------------------------------
(* SpecWinner: winner applied to drawn arguments.  Medians and stddevs    *)
(* reach winner as numbers or, from an empty or one-element sample array,  *)
(* as NaN.                                                                 *)

\* 100 and 105 are the values of a documented call
Vals == {N(n) : n \in 0..MaxVal} \cup {NaN} \cup {N(100), N(105)}
Stds == {N(n) : n \in 0..MaxStd} \cup {NaN}

InitWinner ==
    /\ call \in [msvcVal : Vals, clangVal : Vals, lowerIsBetter : BOOLEAN,
                 msvcStd : Stds, clangStd : Stds]
    /\ verdict = "none"
    /\ IdleSummary /\ IdleBench /\ IdleMain /\ IdleMedian

Adjudicate ==
    /\ verdict = "none"
    /\ verdict' = winner(call.msvcVal, call.clangVal, call.lowerIsBetter,
                         call.msvcStd, call.clangStd)
    /\ UNCHANGED <<call, avars, svars, nvars>>

NextWinner == Adjudicate

SpecWinner == InitWinner /\ [][NextWinner]_vars

-----------------------------------------------------------------------------
(* SpecSummary: main from the result list to the summary, lines 711-741    *)

\* medians and stddevs a benchmark function hands to winner
MsvcMedians == {N(0), N(20)}
ClangMedians == {N(5), N(17), N(20), N(21), NaN}
SummaryStds == {N(0), N(2)}

\* line 730
pctBaselineB(r) ==
    IF JsGt(r.clang, Zero)
    THEN JsAbs(JsDivMul(JsSub(r.clang, r.msvc), r.clang, 100))
    ELSE Zero

pctOf(r) ==
    IF JsGt(r.msvc, Zero)
    THEN JsAbs(JsDivMul(JsSub(r.clang, r.msvc), r.msvc, 100))
    ELSE Zero

\* (adv / total * 100).toFixed(1) for total > 0, in tenths: the integer n
\* with n / 10 nearest the quotient, the larger n of two equally near
toFixed1Trunc(adv, total) == (adv.v * 1000) \div total.v

toFixed1Share(adv, total) == (adv.v * 2000 + total.v) \div (2 * total.v)

\* lines 736-737; '50.0' is 500 tenths
shareOf(adv, total) ==
    IF JsGt(total, Zero) THEN toFixed1Share(adv, total) ELSE 500

\* line 738
overallByWins(a, b) ==
    IF msvcWins > clangWins THEN "MSVC"
    ELSE IF clangWins > msvcWins THEN "ClangCL" ELSE "Tie"

overallOf(a, b) ==
    IF JsGt(a, b) THEN "MSVC" ELSE IF JsGt(b, a) THEN "ClangCL" ELSE "Tie"

InitSummary ==
    /\ spc = "collect" /\ allResults = <<>> /\ k = 0
    /\ msvcWins = 0 /\ clangWins = 0 /\ ties = 0
    /\ msvcAdvantage = Zero /\ clangAdvantage = Zero
    /\ msvcShare = 0 /\ clangShare = 0 /\ overallWinner = "none"
    /\ IdleWinner /\ IdleBench /\ IdleMain /\ IdleMedian

\* lines 713-718: a benchmark function returns and its result is pushed
PushResult(r) ==
    /\ spc = "collect"
    /\ Len(allResults) < MaxResults
    /\ allResults' = Append(allResults, r)
    /\ UNCHANGED <<spc, k, msvcWins, clangWins, ties, msvcAdvantage,
                   clangAdvantage, msvcShare, clangShare, overallWinner>>
    /\ UNCHANGED <<wvars, svars, nvars>>

\* lines 727-728: the loop over the benchmarks is over, the totals start at 0
StartSummary ==
    /\ spc = "collect"
    /\ spc' = "fold"
    /\ UNCHANGED <<allResults, k, msvcWins, clangWins, ties, msvcAdvantage,
                   clangAdvantage, msvcShare, clangShare, overallWinner>>
    /\ UNCHANGED <<wvars, svars, nvars>>

\* lines 729-734: one iteration of the summary loop
FoldStep ==
    /\ spc = "fold"
    /\ k < Len(allResults)
    /\ LET r == allResults[k + 1]
           pct == pctOf(r)
       IN  /\ k' = k + 1
           /\ IF r.winner = "MSVC"
              THEN /\ msvcWins' = msvcWins + 1
                   /\ msvcAdvantage' = JsAdd(msvcAdvantage, pct)
                   /\ UNCHANGED <<clangWins, clangAdvantage, ties>>
              ELSE IF r.winner = "ClangCL"
              THEN /\ clangWins' = clangWins + 1
                   /\ clangAdvantage' = JsAdd(clangAdvantage, pct)
                   /\ UNCHANGED <<msvcWins, msvcAdvantage, ties>>
              ELSE /\ ties' = ties + 1
                   /\ UNCHANGED <<msvcWins, msvcAdvantage, clangWins, clangAdvantage>>
    /\ UNCHANGED <<spc, allResults, msvcShare, clangShare, overallWinner>>
    /\ UNCHANGED <<wvars, svars, nvars>>

\* lines 735-741: shares and overall winner
Report ==
    /\ spc = "fold"
    /\ k = Len(allResults)
    /\ LET totalAdv == JsAdd(msvcAdvantage, clangAdvantage)
       IN  /\ msvcShare' = shareOf(msvcAdvantage, totalAdv)
           /\ clangShare' = shareOf(clangAdvantage, totalAdv)
    /\ overallWinner' = overallOf(msvcAdvantage, clangAdvantage)
    /\ spc' = "done"
    /\ UNCHANGED <<allResults, k, msvcWins, clangWins, ties, msvcAdvantage,
                   clangAdvantage>>
    /\ UNCHANGED <<wvars, svars, nvars>>

NextSummary ==
    \/ \E a \in MsvcMedians, b \in ClangMedians, sa \in SummaryStds, sb \in SummaryStds :
          PushResult(Result(a, b, sa, sb))
    \/ StartSummary
    \/ FoldStep
    \/ Report

SpecSummary == InitSummary /\ [][NextSummary]_vars

-----------------------------------------------------------------------------
(* Properties of winner (SpecWinner) *)

Tied(v) == v \in {"Tie", "~Tie"}

\* the condition of rule 1: max(stdA, stdB) > 0 and |valueA - valueB| < max(stdA, stdB)
NoiseGate ==
    LET m == JsMax(call.msvcStd, call.clangStd)
    IN  /\ JsGt(m, Zero)
        /\ JsLt(JsAbs(JsSub(call.msvcVal, call.clangVal)), m)

\* C1: whenever max(stdA, stdB) > 0 and |valueA - valueB| < max(stdA, stdB),
\* winner returns a tie, never MSVC and never ClangCL, for either value of
\* lowerIsBetter.
C1_NoiseGateTie ==
    (verdict # "none" /\ NoiseGate) => Tied(verdict)

\* a call with different values and lowerIsBetter = false that the gate ties
C1_Witness ==
    /\ verdict = "~Tie"
    /\ NoiseGate
    /\ ~call.lowerIsBetter
    /\ call.msvcVal # call.clangVal

\* the gate does not fire: both stddevs are 0, or |valueA - valueB| >= max(stdA, stdB)
GateIdle ==
    \/ call.msvcStd = Zero /\ call.clangStd = Zero
    \/ LET m == JsMax(call.msvcStd, call.clangStd)
           d == JsAbs(JsSub(call.msvcVal, call.clangVal))
       IN  JsGt(d, m) \/ JsEq(d, m)

\* C2: whenever the noise gate does not fire, the verdict is the candidate
\* with the smaller value if lowerIsBetter and the one with the larger value
\* otherwise, and it is a tie exactly when valueA = valueB.
C2_Directional ==
    (verdict # "none" /\ GateIdle) =>
        /\ Tied(verdict) <=> call.msvcVal = call.clangVal
        /\ verdict = "MSVC" =>
              IF call.lowerIsBetter THEN JsLt(call.msvcVal, call.clangVal)
                                    ELSE JsGt(call.msvcVal, call.clangVal)
        /\ verdict = "ClangCL" =>
              IF call.lowerIsBetter THEN JsGt(call.msvcVal, call.clangVal)
                                    ELSE JsLt(call.msvcVal, call.clangVal)

\* C2 on calls whose two values are numbers: the directional rule holds there
C2_DirectionalOnNumbers ==
    (IsNum(call.msvcVal) /\ IsNum(call.clangVal)) => C2_Directional

-----------------------------------------------------------------------------
(* Properties of the summary (SpecSummary) *)

\* |(B - A) / A * 100| of a result whose A value is a positive number, else 0
Gap(r) ==
    IF IsNum(r.msvc) /\ r.msvc.v > 0 /\ IsNum(r.clang)
    THEN LET d == ((r.clang.v - r.msvc.v) * 100) \div r.msvc.v
         IN  IF d < 0 THEN -d ELSE d
    ELSE 0

\* sum of the gaps of the results won by w among the first n results
RECURSIVE SumGap(_, _)
SumGap(n, w) ==
    IF n = 0 THEN 0
    ELSE SumGap(n - 1, w) + (IF allResults[n].winner = w THEN Gap(allResults[n]) ELSE 0)

Count(n, W) == Cardinality({j \in 1..n : allResults[j].winner \in W})

\* C3: after the fold has consumed k results, each candidate's weighted
\* advantage is the sum of the gaps |(B - A) / A * 100| (0 when A's value is
\* not positive) of the results it won, a tie adds to neither total and is
\* counted in ties, and winsA + winsB + ties = k (= the number of results
\* once the fold is over).
C3_FoldTotals ==
    spc \in {"fold", "done"} =>
        /\ msvcAdvantage = N(SumGap(k, "MSVC"))
        /\ clangAdvantage = N(SumGap(k, "ClangCL"))
        /\ msvcWins = Count(k, {"MSVC"})
        /\ clangWins = Count(k, {"ClangCL"})
        /\ ties = Count(k, {"Tie", "~Tie"})
        /\ msvcWins + clangWins + ties = k
        /\ spc = "done" => msvcWins + clangWins + ties = Len(allResults)

\* a finished fold over a win of each candidate, a tie with unequal values
\* and a result whose A value is 0
C3_Witness ==
    /\ spc = "done"
    /\ msvcAdvantage.v > 0 /\ clangAdvantage.v > 0
    /\ \E j \in 1..Len(allResults) :
          Tied(allResults[j].winner) /\ allResults[j].msvc # allResults[j].clang
    /\ msvcWins + clangWins + ties = MaxResults

Example457 ==
    << Result(N(20), N(21), Zero, Zero), Result(N(20), N(17), Zero, Zero),
       Result(N(20), N(20), Zero, Zero) >>

\* C4: the overall verdict is the candidate whose total of gaps is strictly
\* larger and Tie when the totals are equal, whatever the win counts are;
\* results (A, 5%), (B, 15%), (Tie) give totals 5 and 15 and verdict B.
C4_OverallVerdict ==
    spc = "done" =>
        LET a == SumGap(Len(allResults), "MSVC")
            b == SumGap(Len(allResults), "ClangCL")
        IN  /\ overallWinner = (IF a > b THEN "MSVC" ELSE IF b > a THEN "ClangCL" ELSE "Tie")
            /\ allResults = Example457 =>
                  /\ msvcAdvantage = N(5) /\ clangAdvantage = N(15)
                  /\ overallWinner = "ClangCL"

\* A has more wins, B the larger total, and the verdict is B
C4_Witness ==
    /\ spc = "done"
    /\ msvcWins > clangWins
    /\ JsGt(clangAdvantage, msvcAdvantage)
    /\ overallWinner = "ClangCL"

\* each share, as printed, is within 0.05 of adv / total * 100
NearestTenth(share, adv, total) ==
    2 * AbsInt(share * total - 1000 * adv) <= total

\* C5 as claimed: each share is its total over the sum of both totals as a
\* percentage, so that the two shares sum to 100; both are 50 when the sum
\* of the totals is zero.
C5_SharesSumTo100 ==
    spc = "done" =>
        LET total == msvcAdvantage.v + clangAdvantage.v
        IN  IF total > 0
            THEN /\ NearestTenth(msvcShare, msvcAdvantage.v, total)
                 /\ NearestTenth(clangShare, clangAdvantage.v, total)
                 /\ msvcShare + clangShare = 1000
            ELSE msvcShare = 500 /\ clangShare = 500

\* C5 as amended: each share is its total over the sum of both totals as a
\* percentage, rounded to one decimal place; the two printed shares sum to
\* 100 to within 0.1; both are 50.0 when the sum of the totals is zero.
C5_SharesRounded ==
    spc = "done" =>
        LET total == msvcAdvantage.v + clangAdvantage.v
        IN  IF total > 0
            THEN /\ NearestTenth(msvcShare, msvcAdvantage.v, total)
                 /\ NearestTenth(clangShare, clangAdvantage.v, total)
                 /\ AbsInt(msvcShare + clangShare - 1000) <= 1
            ELSE msvcShare = 500 /\ clangShare = 500

\* totals 5 and 75: the shares 6.25 and 93.75 are printed 6.3 and 93.8
C5_Witness ==
    /\ spc = "done"
    /\ msvcAdvantage = N(5) /\ clangAdvantage = N(75)
    /\ msvcShare = 63 /\ clangShare = 938

-----------------------------------------------------------------------------
(* Properties of the benchmark functions (Spec) *)

\* the sample arrays the function fills
Samples(t, m) == IF kind = "json" THEN m ELSE t

\* C6: whichever branch runBothTimed takes, the result it returns as msvc
\* comes from spawning MSVC_BIN and the one it returns as clang from
\* spawning CLANG_BIN, and every sample kept for a candidate was produced
\* by that candidate's binary.
C6_Attribution ==
    /\ res.msvc # None => res.msvc.bin = MSVC_BIN
    /\ res.clang # None => res.clang.bin = CLANG_BIN
    /\ \A j \in 1..Len(origin.msvc) : origin.msvc[j] = MSVC_BIN
    /\ \A j \in 1..Len(origin.clang) : origin.clang[j] = CLANG_BIN
    /\ Len(origin.msvc) = Len(Samples(times, mem).msvc)
    /\ Len(origin.clang) = Len(Samples(times, mem).clang)

\* a trial that ran ClangCL first has returned both results, after a trial
\* whose samples were kept
C6_Witness ==
    /\ order = "clangFirst"
    /\ Returned
    /\ res.msvc # None /\ res.clang # None
    /\ Len(origin.msvc) >= 1 /\ Len(origin.clang) >= 1

\* C7: at most one subprocess executes at any time; the second invocation
\* of a paired trial starts only after the first has ended and left its
\* result, and a trial starts only when the previous trial's results have
\* been consumed by the loop body.
C7_Sequential ==
    /\ Cardinality(running) <= 1
    /\ started = 0 => (running = {} /\ res = NoRes)
    /\ (started = 1 /\ running # {}) => res = NoRes
    /\ (started = 2 /\ running # {}) =>
          /\ In(plan[1].slot, res) # None
          /\ In(plan[2].slot, res) = None
          /\ running = {plan[2].bin}

\* the second child of a later measured trial is executing
C7_Witness ==
    /\ pc = "measure" /\ i >= 1
    /\ started = 2
    /\ Cardinality(running) = 1

\* C8: all WARMUP paired trials are over before the first measured trial
\* starts, the warmup trials leave the sample arrays empty, and no more
\* samples are kept than measured trials have completed.
C8_WarmupFirst ==
    /\ pc = "warmup" => (times = Empty /\ mem = Empty /\ i = 0 /\ iw < WARMUP)
    /\ (pc \in {"measure", "reduce"} /\ kind # "size") => iw = WARMUP
    /\ Len(Samples(times, mem).msvc) <= i
    /\ Len(Samples(times, mem).clang) <= i

\* the first measured trial has been started: the warmups are over and
\* nothing has been kept
C8_Witness ==
    /\ pc = "measure" /\ i = 0 /\ started = 1 /\ running # {}
    /\ iw = WARMUP /\ WARMUP > 0
    /\ times = Empty /\ mem = Empty

\* the fields the function reads from each parsed payload
Fields(fn) ==
    IF fn = "benchMemoryStartup" THEN {"rss", "heapUsed", "heapTotal", "external"}
    ELSE {"rss", "heapUsed"}

\* the output has the expected shape: a numeric literal, or an object with
\* the named numeric fields
ExpectedShape(text) ==
    LET t == trim(text)
    IN  IF kind = "float"
        THEN Len(t) > 0 /\ \A j \in 1..Len(t) : t[j] \in Digits
        ELSE /\ JSONparse(t).ok
             /\ \A f \in Fields(benchmarks[bench].fn) : IsNum(Get(JSONparse(t).val, f))

\* C9: in a measured trial of a benchmark that parses its output, a
\* candidate whose output does not have the expected shape gets no sample
\* and a candidate whose output has it gets one, each independently of the
\* other candidate.
C9_DropUnparsable ==
    [][(pc = "measure" /\ Returned /\ kind \in {"float", "json"}) =>
         /\ Len(Samples(times', mem').msvc) = Len(Samples(times, mem).msvc)
              + (IF ExpectedShape(res.msvc.stdout) THEN 1 ELSE 0)
         /\ Len(Samples(times', mem').clang) = Len(Samples(times, mem).clang)
              + (IF ExpectedShape(res.clang.stdout) THEN 1 ELSE 0)]_vars

\* the child timed out and was killed (status null) or exited non-zero
Failed(r) == r.status # N(0)

\* C10: in every benchmark, a measured trial whose subprocess timed out or
\* exited with a non-zero status adds no sample for that candidate.
C10_FailedRecordNothing ==
    [][(pc = "measure" /\ Returned) =>
         /\ Failed(res.msvc) => Samples(times', mem').msvc = Samples(times, mem).msvc
         /\ Failed(res.clang) => Samples(times', mem').clang = Samples(times, mem).clang]_vars

-----------------------------------------------------------------------------
(* Properties of the reductions inside a benchmark function (Spec) *)

\* median is asked of no sample, or stddev of fewer than 2
TooFew(a) == Len(a) < 2

\* C11: when a benchmark function reduces a sample array that is too small
\* (median or mean of none, stddev of fewer than 2), the outcome is an
\* error and no result: the function never returns results made from such
\* an array.
C11_InsufficientSamplesFail ==
    (/\ pc \in {"done", "threw"} /\ kind # "size"
     /\ TooFew(Samples(times, mem).msvc) \/ TooFew(Samples(times, mem).clang))
        => (pc = "threw" /\ result = <<>>)

-----------------------------------------------------------------------------
(* Properties of the whole run (SpecMain) *)

\* a candidate path does not exist
MissingPath == exists # {MSVC_BIN, CLANG_BIN}

\* no subprocess has been invoked and no benchmark has been started
NothingRan ==
    /\ ~spawned
    /\ running = {} /\ started = 0
    /\ logged = <<>> /\ allResults = <<>>
    /\ pc = "idle"

\* C12: when a candidate path is missing, the run goes from its start
\* straight to its exit: it reports an error and exits with a non-zero
\* status, and at no point of the run has a subprocess of either candidate
\* been invoked or a benchmark been started.
C12_ValidationFirst ==
    MissingPath =>
        /\ NothingRan
        /\ mpc \in {"start", "exited"}
        /\ mpc = "exited" => (exitCode # Undefined /\ exitCode # N(0) /\ errors # <<>>)

\* two arguments were given, MSVC_BIN exists and CLANG_BIN does not, and the
\* process has exited with status 1
C12_Witness ==
    /\ argc = 2
    /\ exists = {MSVC_BIN}
    /\ mpc = "exited"
    /\ exitCode = N(1)
    /\ errors = <<"ClangCL binary not found">>

\* what console.log has reported once every benchmark has run in the order
\* of the list and the summary has been printed
FullRun ==
    [j \in 1..(2 * Len(benchmarks) + 1) |->
        IF j = 2 * Len(benchmarks) + 1 THEN <<"Overall winner", "">>
        ELSE IF j % 2 = 1 THEN <<"Running", benchmarks[(j + 1) \div 2].name>>
        ELSE <<"done", benchmarks[j \div 2].name>>]

\* C13: a run whose validation has passed ends, whatever its subprocesses
\* do, with every benchmark of the list run in order, the summary printed
\* and the exit status 0; the exit status is non-zero only when validation
\* has failed.
C13_OnlyValidationHalts ==
    /\ (exitCode # Undefined /\ exitCode # N(0)) => validationError(argc, exists) # "none"
    /\ (mpc = "exited" /\ validationError(argc, exists) = "none") =>
          /\ exitCode = N(0)
          /\ logged = FullRun

-----------------------------------------------------------------------------
(* Properties of median (SpecMedian) *)

\* how many elements of s are below v, and how many are not above it
Below(s, v) == Cardinality({j \in 1..Len(s) : s[j].v < v})
UpTo(s, v) == Cardinality({j \in 1..Len(s) : s[j].v <= v})

\* the element at position j of s in ascending order
Ranked(s, j) ==
    CHOOSE v \in {s[q].v : q \in 1..Len(s)} : Below(s, v) < j /\ j <= UpTo(s, v)

\* C14: on a non-empty array median returns the middle element of the
\* ascending order when the count is odd and the mean of the two middle
\* elements when it is even; it leaves the caller's array as it was; its
\* result lies between the smallest and the largest element;
\* median([1,2,3,4]) = 2.5 and median([1,2,3]) = 2.
C14_Median ==
    (med # NoMedian /\ Len(samples0) > 0) =>
        LET n == Len(samples0)
            vals == {samples0[j].v : j \in 1..n}
        IN  /\ IsFin(med)
            /\ n % 2 = 1 => med = N(Ranked(samples0, (n + 1) \div 2))
            /\ n % 2 = 0 =>
                  2 * Numer(med) =
                     (Ranked(samples0, n \div 2) + Ranked(samples0, n \div 2 + 1)) * Denom(med)
            /\ samples = samples0
            /\ \A v \in vals : (\A u \in vals : v <= u) => v * Denom(med) <= Numer(med)
            /\ \A v \in vals : (\A u \in vals : v >= u) => v * Denom(med) >= Numer(med)
            /\ samples0 = <<N(1), N(2), N(3), N(4)>> => (Numer(med) = 5 /\ Denom(med) = 2)
            /\ samples0 = <<N(1), N(2), N(3)>> => med = N(2)

\* median has returned 2.5 for an array of four that was not in order
C14_Witness ==
    /\ samples0 = <<N(4), N(1), N(3), N(2)>>
    /\ samples = samples0
    /\ IsFin(med)
    /\ Numer(med) = 5 /\ Denom(med) = 2

-----------------------------------------------------------------------------
(* A documented call of winner (SpecWinner) *)

\* winner(100, 105, true, 1, 1)
Example100 ==
    [msvcVal |-> N(100), clangVal |-> N(105), lowerIsBetter |-> TRUE,
     msvcStd |-> N(1), clangStd |-> N(1)]

\* C15 as claimed: valueA = 100 against valueB = 105 with lowerIsBetter =
\* true and stdA = stdB = 1 gives the verdict B (ClangCL).
C15_ExampleGivesB ==
    (verdict # "none" /\ call = Example100) => verdict = "ClangCL"

\* C15 as amended: valueA = 100 against valueB = 105 with lowerIsBetter =
\* true and stdA = stdB = 1 gives the verdict A (MSVC): the gap 5 is not
\* below the larger stddev 1, so the gate does not fire, and A has the
\* smaller value.
C15_ExampleGivesA ==
    (verdict # "none" /\ call = Example100) =>
        /\ ~NoiseGate
        /\ verdict = "MSVC"

\* the documented call has returned
C15_Witness == call = Example100 /\ verdict = "MSVC"

====
